---------------------------- MODULE Spec2Model ----------------------------
(***************************************************************************)
(* RustDbg: a ptrace debugger.  The model covers the command loop of       *)
(* main.rs (run_command) and the breakpoint engine of working.rs           *)
(* (set_breakpoint, handle_breakpoint, prettier, show_registers), together *)
(* with the part of the kernel's ptrace/waitpid behaviour the code relies  *)
(* on: a tracee that is Running, in a ptrace-stop (Stopped), a Zombie      *)
(* (exited, not yet reaped) or Reaped.                                     *)
(*                                                                         *)
(* A machine word is the sequence of its 8 bytes, least significant first  *)
(* (x86-64 is little endian), so `w as u8` is w[1] and                     *)
(* `(w & !0xff) | b` is [w EXCEPT ![1] = b].                               *)
(***************************************************************************)
EXTENDS Integers, Sequences, FiniteSets, TLC

\* size in bytes of the word PTRACE_PEEKTEXT / PTRACE_POKETEXT transfer (c_long)
WordSize == 8

\* the one-byte trap instruction, 0xcc
TRAP == 204

\* the tracee's mapped bytes are 0 .. MemSize-1
MemSize == 10

\* the bytes 0 .. WritableEnd-1 can be poked; the mapped bytes from WritableEnd
\* on belong to a read-only shared mapping: PEEKTEXT succeeds, POKETEXT fails
WritableEnd == 9

\* instruction pointers the tracee is observed at: 1 .. MaxRip
MaxRip == 3

VARIABLES
    tstate,       \* the tracee: "Running", "Stopped", "Zombie", "Reaped"
    pending,      \* the tracee's stop has not been reported by a waitpid yet
    sig,          \* the signal of the stop the tracee is in (NoSig outside a stop)
    rip,          \* regs.rip of the stopped tracee (0 outside a stop)
    mem,          \* the tracee's memory, byte by byte
    BREAKPOINTS,  \* static mut BREAKPOINTS: address -> original byte
    pc,           \* the debugger: "prompt", "prettier", "syscall_wait",
                  \*               "exited" (status 0), "panicked"
    command,      \* the command line being run, or run last
    out,          \* the lines that command has printed on stdout
    prog,         \* history: the program image the tracee was started with
    installs,     \* history: successful set_breakpoint calls per address (0, 1, 2 = more)
    before,       \* history: the word at an address before its first successful install
    touched,      \* history: a write at another address changed the word since then
    waited        \* history: a waitpid has reported a stop of the tracee

vars == <<tstate, pending, sig, rip, mem, BREAKPOINTS, pc, command, out,
          prog, installs, before, touched, waited>>

tracee == <<tstate, pending, sig, rip>>
history == <<prog, installs, before, touched, waited>>

Addr == 0..(MemSize - 1)
RipVals == 1..MaxRip
Signals == {"SIGTRAP", "SIGSEGV"}
NoSig == "none"

\* the addresses the operator types: two whose words overlap and can be patched,
\* the first whose word can be read but not written, the first whose word
\* cannot be read
CmdAddrs == {0, 1, WritableEnd - WordSize + 1, MemSize - WordSize + 1}

\* program images: distinct bytes, with or without an int3 of the program's own
Image(k) == [a \in Addr |-> IF a = k THEN TRAP ELSE 64 + a]
Images == {Image(1), Image(MemSize)}

-----------------------------------------------------------------------------
(* Command lines.  args[0] is `name`; argc is args.len(); for m and b the    *)
(* second token is described by has0x (starts_with("0x")) and val            *)
(* (from_str_radix: the address, or -1 for Err).                            *)

Cmd(n) == [name |-> n, argc |-> 1, has0x |-> FALSE, val |-> -1]
CmdArg(n, c, p, v) == [name |-> n, argc |-> c, has0x |-> p, val |-> v]
ArgCmds(n) ==
    {CmdArg(n, 2, TRUE, a) : a \in CmdAddrs}
      \cup {Cmd(n), CmdArg(n, 3, TRUE, 0), CmdArg(n, 2, FALSE, 0), CmdArg(n, 2, TRUE, -1)}
NoCommand == Cmd("")

\* a printed line: its text, and the address and the word it shows (-1, <<>>: none)
NoWord == <<>>
Line(t) == [text |-> t, addr |-> -1, word |-> NoWord]
LineAt(t, a) == [text |-> t, addr |-> a, word |-> NoWord]
LineWord(t, w) == [text |-> t, addr |-> -1, word |-> w]
Printed(t) == \E i \in 1..Len(out) : out[i].text = t

-----------------------------------------------------------------------------
(* ptrace and waitpid as the kernel answers them.                            *)

\* every ptrace request needs the tracee in a ptrace-stop, else ESRCH
PtraceOK(t) == t = "Stopped"

WordAddrs(a) == a..(a + WordSize - 1)

\* ptrace::read(child, a): PTRACE_PEEKTEXT of the word at a
ReadOK(t, a) == PtraceOK(t) /\ WordAddrs(a) \subseteq Addr
\* ptrace::write(child, a, w): PTRACE_POKETEXT of the word at a
WriteOK(t, a) == PtraceOK(t) /\ WordAddrs(a) \subseteq 0..(WritableEnd - 1)

Word(m, a) == [i \in 1..WordSize |-> m[a + i - 1]]
Poke(m, a, w) == [x \in DOMAIN m |-> IF x \in WordAddrs(a) THEN w[x - a + 1] ELSE m[x]]

\* waitpid(child, None): "Stopped", "Exited", "ECHILD", or "block" (no event yet)
WaitResult ==
    CASE tstate = "Reaped" -> "ECHILD"
      [] tstate = "Zombie" -> "Exited"
      [] tstate = "Stopped" /\ pending -> "Stopped"
      [] OTHER -> "block"

-----------------------------------------------------------------------------
(* working.rs                                                                *)

\* original_byte as u8
LowByte(w) == w[1]

\* mutant: 0xcc alone, the upper seven bytes of the word dropped
word_to_write_unmasked(w) == [i \in 1..WordSize |-> IF i = 1 THEN TRAP ELSE 0]

\* (original_byte & !0xff) | 0xcc
word_to_write(w) == [w EXCEPT ![1] = TRAP]

\* mutant: the low byte cleared and the original byte never or-ed back in
original_instruction_cleared(w, b) == [w EXCEPT ![1] = 0]

\* original_instruction &= !0xff; original_instruction |= original_byte as i64
original_instruction(w, b) == [w EXCEPT ![1] = b]

\* breakpoints.insert(address, byte)
Insert(t, a, b) == [x \in DOMAIN t \cup {a} |-> IF x = a THEN b ELSE t[x]]

\* set_breakpoint: its result, the table and the memory it leaves
set_breakpoint_ret(a) ==
    IF ~ReadOK(tstate, a) THEN "Err"
    ELSE IF ~WriteOK(tstate, a) THEN "Err"
    ELSE "Ok"

\* mutant: the entry recorded whatever the read returned
set_breakpoint_table_unchecked(a) ==
    Insert(BREAKPOINTS, a, IF ReadOK(tstate, a) THEN LowByte(Word(mem, a)) ELSE 0)

set_breakpoint_table(a) ==
    IF ~ReadOK(tstate, a) THEN BREAKPOINTS
    ELSE Insert(BREAKPOINTS, a, LowByte(Word(mem, a)))

set_breakpoint_mem(a) ==
    IF ~ReadOK(tstate, a) THEN mem
    ELSE IF ~WriteOK(tstate, a) THEN mem
    ELSE Poke(mem, a, word_to_write(Word(mem, a)))

\* mutant: the instruction pointer itself taken as the breakpoint's address
stop_address_rip(r) == r

\* handle_breakpoint(child, rip - 1): the address looked up for a stop at rip r
stop_address(r) == r - 1

\* handle_breakpoint: "Hit", "Unknown" or "panic", and the memory it leaves
handle_breakpoint_ret(a) ==
    IF a \in DOMAIN BREAKPOINTS
    THEN IF ReadOK(tstate, a) /\ WriteOK(tstate, a) THEN "Hit" ELSE "panic"
    ELSE "Unknown"

\* mutant: the program's word as it was at start written back, not the word read now
handle_breakpoint_mem_stale(a) ==
    IF a \in DOMAIN BREAKPOINTS /\ ReadOK(tstate, a) /\ WriteOK(tstate, a)
    THEN Poke(mem, a, original_instruction(Word(prog, a), BREAKPOINTS[a]))
    ELSE mem

handle_breakpoint_mem(a) ==
    IF a \in DOMAIN BREAKPOINTS /\ ReadOK(tstate, a) /\ WriteOK(tstate, a)
    THEN Poke(mem, a, original_instruction(Word(mem, a), BREAKPOINTS[a]))
    ELSE mem

handle_breakpoint_table(a) == BREAKPOINTS

-----------------------------------------------------------------------------
(* History variables.                                                        *)

\* a write that leaves memory m2 changed the word of an installed address other than a
Touch(m2, a) ==
    [x \in CmdAddrs |->
        touched[x] \/ (x # a /\ installs[x] > 0 /\ Word(m2, x) # Word(mem, x))]

-----------------------------------------------------------------------------
Init ==
    /\ tstate = "Running"
    /\ pending = FALSE
    /\ sig = NoSig
    /\ rip = 0
    /\ prog \in Images
    /\ mem = prog
    /\ BREAKPOINTS = [a \in {} |-> 0]
    /\ pc = "prompt"
    /\ command = NoCommand
    /\ out = <<>>
    /\ installs = [a \in CmdAddrs |-> 0]
    /\ before = [a \in CmdAddrs |-> NoWord]
    /\ touched = [a \in CmdAddrs |-> FALSE]
    /\ waited = FALSE

(* The tracee, while it runs. *)

TraceeStops ==
    /\ tstate = "Running"
    /\ tstate' = "Stopped"
    /\ pending' = TRUE
    /\ sig' \in Signals
    /\ rip' \in RipVals
    /\ UNCHANGED <<mem, BREAKPOINTS, pc, command, out, history>>

TraceeExits ==
    /\ tstate = "Running"
    /\ tstate' = "Zombie"
    /\ UNCHANGED <<pending, sig, rip, mem, BREAKPOINTS, pc, command, out, history>>

(* run_command: c *)

\* mutant: the result of ptrace::cont unwrapped
Continue_unwrapped ==
    /\ pc = "prompt"
    /\ command' = Cmd("c")
    /\ out' = <<Line("Continuing execution...")>>
    /\ IF PtraceOK(tstate)
       THEN /\ tstate' = "Running"
            /\ pending' = FALSE
            /\ sig' = NoSig
            /\ rip' = 0
            /\ pc' = "prettier"
       ELSE /\ pc' = "panicked"
            /\ UNCHANGED tracee
    /\ UNCHANGED <<mem, BREAKPOINTS, history>>

Continue ==
    /\ pc = "prompt"
    /\ command' = Cmd("c")
    /\ IF PtraceOK(tstate)
       THEN /\ tstate' = "Running"
            /\ pending' = FALSE
            /\ sig' = NoSig
            /\ rip' = 0
            /\ pc' = "prettier"
            /\ out' = <<Line("Continuing execution...")>>
       ELSE /\ out' = <<Line("Continuing execution..."), Line("Failed to continue execution")>>
            /\ UNCHANGED <<tracee, pc>>
    /\ UNCHANGED <<mem, BREAKPOINTS, history>>

(* prettier: one waitpid of its loop, and what follows it.  A stop on a     *)
(* signal other than SIGTRAP and an exit status go round the loop again.    *)

Prettier ==
    /\ pc = "prettier"
    /\ WaitResult # "block"
    /\ CASE WaitResult = "ECHILD" ->
              /\ out' = Append(out, Line("rustdbg> Child process has terminated."))
              /\ pc' = "exited"
              /\ UNCHANGED <<tstate, pending, mem, BREAKPOINTS, history>>
         [] WaitResult = "Exited" ->
              /\ tstate' = "Reaped"
              /\ UNCHANGED <<pending, mem, BREAKPOINTS, pc, out, history>>
         [] WaitResult = "Stopped" /\ sig # "SIGTRAP" ->
              /\ pending' = FALSE
              /\ waited' = TRUE
              /\ UNCHANGED <<tstate, mem, BREAKPOINTS, pc, out, prog, installs, before, touched>>
         [] WaitResult = "Stopped" /\ sig = "SIGTRAP" ->
              LET a == stop_address(rip)
                  r == handle_breakpoint_ret(a)
              IN  /\ pending' = FALSE
                  /\ waited' = TRUE
                  /\ mem' = handle_breakpoint_mem(a)
                  /\ BREAKPOINTS' = handle_breakpoint_table(a)
                  /\ touched' = Touch(mem', a)
                  /\ out' = IF r = "panic" THEN Append(out, Line("SIGTRAP"))
                            ELSE out \o <<Line("SIGTRAP"), LineAt(r, a)>>
                  /\ pc' = IF r = "panic" THEN "panicked" ELSE "prompt"
                  /\ UNCHANGED <<tstate, prog, installs, before>>
    /\ UNCHANGED <<sig, rip, command>>

(* run_command: s *)

Syscall ==
    /\ pc = "prompt"
    /\ command' = Cmd("s")
    /\ out' = <<>>
    /\ pc' = "syscall_wait"
    /\ UNCHANGED <<tracee, mem, BREAKPOINTS, history>>

\* mutant: the syscall arm resolving a SIGTRAP stop as prettier does
SyscallWait_resolving ==
    /\ pc = "syscall_wait"
    /\ WaitResult # "block"
    /\ pc' = "prompt"
    /\ IF WaitResult = "ECHILD"
       THEN /\ out' = <<Line("Failed to wait")>>
            /\ UNCHANGED <<tracee, waited, mem>>
       ELSE LET t == IF WaitResult = "Exited" THEN "Reaped" ELSE tstate
            IN  /\ pending' = FALSE
                /\ waited' = (waited \/ WaitResult = "Stopped")
                /\ IF ~PtraceOK(t)
                   THEN /\ out' = <<Line("Could not get child's registers")>>
                        /\ tstate' = t
                        /\ UNCHANGED <<sig, rip, mem>>
                   ELSE /\ out' = <<LineAt("Entering syscall", rip)>>
                        /\ mem' = IF sig = "SIGTRAP" THEN handle_breakpoint_mem(rip - 1) ELSE mem
                        /\ tstate' = "Running"
                        /\ sig' = NoSig
                        /\ rip' = 0
    /\ UNCHANGED <<BREAKPOINTS, command, prog, installs, before, touched>>

\* from the return of the waitpid of line 108 to the end of the arm; getregs
\* and ptrace::syscall follow each other on the same tracee, so the arm that
\* prints the rejected PTRACE_SYSCALL is only taken if getregs succeeded
SyscallWait ==
    /\ pc = "syscall_wait"
    /\ WaitResult # "block"
    /\ pc' = "prompt"
    /\ IF WaitResult = "ECHILD"
       THEN /\ out' = <<Line("Failed to wait")>>
            /\ UNCHANGED <<tracee, waited>>
       ELSE LET t == IF WaitResult = "Exited" THEN "Reaped" ELSE tstate
            IN  /\ pending' = FALSE
                /\ waited' = (waited \/ WaitResult = "Stopped")
                /\ IF ~PtraceOK(t)
                   THEN /\ out' = <<Line("Could not get child's registers")>>
                        /\ tstate' = t
                        /\ UNCHANGED <<sig, rip>>
                   ELSE IF PtraceOK(t)
                   THEN /\ out' = <<LineAt("Entering syscall", rip)>>
                        /\ tstate' = "Running"
                        /\ sig' = NoSig
                        /\ rip' = 0
                   ELSE /\ out' = <<LineAt("Entering syscall", rip),
                                     Line("Failed to use PTRACE_SYSCALL")>>
                        /\ tstate' = t
                        /\ UNCHANGED <<sig, rip>>
    /\ UNCHANGED <<mem, BREAKPOINTS, command, prog, installs, before, touched>>

(* run_command: n *)

Step ==
    /\ pc = "prompt"
    /\ command' = Cmd("n")
    /\ IF PtraceOK(tstate)
       THEN /\ tstate' = "Running"
            /\ pending' = FALSE
            /\ sig' = NoSig
            /\ rip' = 0
            /\ out' = <<Line("Taking a single step...")>>
       ELSE /\ out' = <<Line("Taking a single step..."), Line("Failed to continue execution")>>
            /\ UNCHANGED tracee
    /\ UNCHANGED <<mem, BREAKPOINTS, pc, history>>

(* run_command: r, with show_registers *)

Registers ==
    /\ pc = "prompt"
    /\ command' = Cmd("r")
    /\ IF PtraceOK(tstate)
       THEN /\ out' = <<Line("Showing register states..."), LineAt("Registers:", rip)>>
            /\ pc' = "prompt"
       ELSE /\ out' = <<Line("Showing register states...")>>
            /\ pc' = "panicked"
    /\ UNCHANGED <<tracee, mem, BREAKPOINTS, history>>

(* run_command: m and b check their argument alike *)

\* mutant: the starts_with("0x") check left out
ArgError_noprefix(c) ==
    IF c.argc # 2
    THEN IF c.name = "m" THEN "Usage: m <address>" ELSE "Usage: b <address>"
    ELSE IF c.val < 0 THEN "Invalid address format"
    ELSE ""

\* the line printed for a bad argument, "" when the address parses
ArgError(c) ==
    IF c.argc # 2
    THEN IF c.name = "m" THEN "Usage: m <address>" ELSE "Usage: b <address>"
    ELSE IF ~c.has0x THEN "Your address should start with 0x !"
    ELSE IF c.val < 0 THEN "Invalid address format"
    ELSE ""

(* run_command: m *)

Memory ==
    /\ pc = "prompt"
    /\ \E c \in ArgCmds("m") :
          /\ command' = c
          /\ out' = IF ArgError(c) # "" THEN <<Line(ArgError(c))>>
                    ELSE IF ReadOK(tstate, c.val) THEN <<LineWord("word", Word(mem, c.val))>>
                    ELSE <<Line("Not able to read the content of this address")>>
    /\ UNCHANGED <<tracee, mem, BREAKPOINTS, pc, history>>

(* run_command: b, with set_breakpoint *)

Breakpoint ==
    /\ pc = "prompt"
    /\ \E c \in ArgCmds("b") :
          /\ command' = c
          /\ IF ArgError(c) # ""
             THEN /\ out' = <<Line(ArgError(c))>>
                  /\ UNCHANGED <<mem, BREAKPOINTS, installs, before, touched>>
             ELSE LET a == c.val
                      ok == set_breakpoint_ret(a) = "Ok"
                  IN  /\ BREAKPOINTS' = set_breakpoint_table(a)
                      /\ mem' = set_breakpoint_mem(a)
                      /\ out' = IF ok THEN <<>> ELSE <<Line("Failed to set breakpoint")>>
                      /\ installs' = IF ok THEN [installs EXCEPT ![a] = IF @ = 0 THEN 1 ELSE 2]
                                     ELSE installs
                      /\ before' = IF ok /\ installs[a] = 0
                                   THEN [before EXCEPT ![a] = Word(mem, a)] ELSE before
                      /\ touched' = Touch(mem', a)
    /\ UNCHANGED <<tracee, pc, prog, waited>>

(* run_command: h, q and the default arm *)

Help ==
    /\ pc = "prompt"
    /\ command' = Cmd("h")
    /\ out' = <<Line("Available commands:")>>
    /\ UNCHANGED <<tracee, mem, BREAKPOINTS, pc, history>>

Quit ==
    /\ pc = "prompt"
    /\ command' = Cmd("q")
    /\ out' = <<Line("Exiting the debugger !")>>
    /\ pc' = "exited"
    /\ UNCHANGED <<tracee, mem, BREAKPOINTS, history>>

Unknown ==
    /\ pc = "prompt"
    /\ command' = Cmd("x")
    /\ out' = <<Line("Unknown command: x")>>
    /\ UNCHANGED <<tracee, mem, BREAKPOINTS, pc, history>>

Next ==
    \/ TraceeStops
    \/ TraceeExits
    \/ Continue
    \/ Prettier
    \/ Syscall
    \/ SyscallWait
    \/ Step
    \/ Registers
    \/ Memory
    \/ Breakpoint
    \/ Help
    \/ Quit
    \/ Unknown

Spec == Init /\ [][Next]_vars

-----------------------------------------------------------------------------
(* Properties.                                                               *)

\* the command `b 0x<a>`
BreakAt(a) == CmdArg("b", 2, TRUE, a)

\* the last command was a continue whose prettier took a SIGTRAP stop at a
TrapAt(a) ==
    /\ command = Cmd("c")
    /\ pc \in {"prompt", "panicked"}
    /\ Printed("SIGTRAP")
    /\ rip - 1 = a

HitPrinted(a) == \E i \in 1..Len(out) : out[i] = LineAt("Hit", a)
UnknownPrinted(a) == \E i \in 1..Len(out) : out[i] = LineAt("Unknown", a)

\* C1: every address in the Breakpoint Table holds the trap opcode in the
\* tracee's memory, and its entry records the byte the program had there
\* before it was patched.
C1_TableMatchesMemory ==
    \A a \in DOMAIN BREAKPOINTS : mem[a] = TRAP /\ BREAKPOINTS[a] = prog[a]

\* C2: when a continue ends in a trap stop at A that is reported as Hit(A),
\* the entry for A is no longer in the Breakpoint Table.
C2_HitRemovesEntry ==
    \A a \in CmdAddrs : (TrapAt(a) /\ HitPrinted(a)) => a \notin DOMAIN BREAKPOINTS

\* C3 as stated: after one successful install at A, a trap stop at A taken by
\* continue reports Hit(A) and leaves the word at A as it was before the install.
C3_RoundTrip_AsStated ==
    \A a \in CmdAddrs :
        (TrapAt(a) /\ installs[a] = 1) =>
            (pc = "prompt" /\ HitPrinted(a) /\ Word(mem, a) = before[a])

\* C3 as amended: the same, provided no install or restore at another address
\* changed the word at A between the install and the trap stop.
C3_RoundTrip ==
    \A a \in CmdAddrs :
        (TrapAt(a) /\ installs[a] = 1 /\ ~touched[a]) =>
            (pc = "prompt" /\ HitPrinted(a) /\ Word(mem, a) = before[a])

\* C3, its case: a hit at an address installed once, whose word nothing else changed
C3_Witness ==
    \E a \in CmdAddrs :
        /\ TrapAt(a) /\ installs[a] = 1 /\ ~touched[a]
        /\ HitPrinted(a) /\ prog[a] # TRAP /\ mem[a] = prog[a]

\* C4: an install whose read succeeds and whose write fails returns an error
\* and adds no entry for its address to the table.
C4_NoEntryOnFailedWrite ==
    [][\A a \in CmdAddrs :
          (command' = BreakAt(a) /\ ReadOK(tstate, a) /\ ~WriteOK(tstate, a)
             /\ Breakpoint) =>
                /\ Printed("Failed to set breakpoint")'
                /\ (a \in DOMAIN BREAKPOINTS' => a \in DOMAIN BREAKPOINTS)]_vars

\* C5: an install at an address whose read fails prints an error, leaves the
\* table and the tracee's memory as they were, and returns to the prompt.
C5_UnreadableInstall ==
    [][\A a \in CmdAddrs :
          (command' = BreakAt(a) /\ ~ReadOK(tstate, a) /\ Breakpoint) =>
                /\ out' = <<Line("Failed to set breakpoint")>>
                /\ BREAKPOINTS' = BREAKPOINTS
                /\ mem' = mem
                /\ pc' = "prompt"]_vars

\* C5, its case: a failed install at an unmapped address of a stopped tracee
C5_Witness ==
    \E a \in CmdAddrs :
        /\ command = BreakAt(a) /\ tstate = "Stopped"
        /\ ~(WordAddrs(a) \subseteq Addr)
        /\ Printed("Failed to set breakpoint")
        /\ pc = "prompt"

\* C6: after a successful install at A the byte at A is the trap opcode, the
\* other seven bytes of the word at A are unchanged, and the table records
\* the low byte of the word that stood at A before the install.
C6_InstallPatchesLowByte ==
    [][\A a \in CmdAddrs :
          (command' = BreakAt(a) /\ out' = <<>> /\ Breakpoint) =>
                /\ mem'[a] = TRAP
                /\ \A i \in 1..(WordSize - 1) : mem'[a + i] = mem[a + i]
                /\ a \in DOMAIN BREAKPOINTS'
                /\ BREAKPOINTS'[a] = mem[a]]_vars

\* C6, its case: an install that succeeded on a byte that was not a trap
C6_Witness ==
    \E a \in CmdAddrs :
        /\ command = BreakAt(a) /\ out = <<>> /\ installs[a] = 1
        /\ mem[a] = TRAP /\ prog[a] # TRAP

\* C7: a continue issued when the tracee has already exited prints the
\* termination notice and ends the debugger with status 0.
C7_ContinueAfterExit ==
    [][(tstate \in {"Zombie", "Reaped"} /\ Continue) =>
          (pc' = "exited" /\ Printed("rustdbg> Child process has terminated.")')]_vars

\* C8: a wait that finds the child already reaped, in continue or in syscall,
\* ends the debugger with status 0.
C8_NoSuchChildEndsSession ==
    [][(WaitResult = "ECHILD" /\ (Prettier \/ SyscallWait)) =>
          (pc' = "exited" /\ Printed("rustdbg> Child process has terminated.")')]_vars

\* C9: no command aborts the debugger, and it exits only on quit or on
\* finding the tracee gone.
C9_NeverAborts ==
    /\ pc # "panicked"
    /\ pc = "exited" =>
          \/ Printed("Exiting the debugger !")
          \/ Printed("rustdbg> Child process has terminated.")

\* C10: a resume request the OS rejects is reported, leaves the tracee's
\* state, its memory and the Breakpoint Table unchanged, and returns to the prompt.
C10_RejectedResume ==
    [][(\/ ~PtraceOK(tstate) /\ (Continue \/ Step)
        \/ Printed("Failed to use PTRACE_SYSCALL")' /\ SyscallWait) =>
          /\ tstate' = tstate
          /\ BREAKPOINTS' = BREAKPOINTS
          /\ mem' = mem
          /\ pc' = "prompt"
          /\ \/ Printed("Failed to continue execution")'
             \/ Printed("Failed to use PTRACE_SYSCALL")']_vars

\* C10, its case: a continue or a step that was rejected, back at the prompt
C10_Witness ==
    /\ command \in {Cmd("c"), Cmd("n")}
    /\ Printed("Failed to continue execution")
    /\ pc = "prompt"
    /\ DOMAIN BREAKPOINTS # {}

\* C11: when continue, next or syscall has issued its resume and returns to
\* the prompt, the tracee is not running and has no stop left unreported.
C11_ResumeAndWaitInOneStep ==
    [][(\/ PtraceOK(tstate) /\ Step
        \/ pc' = "prompt" /\ (Prettier \/ SyscallWait)) =>
          (tstate' # "Running" /\ ~pending')]_vars

\* C12: when the tracee stops on any signal after a continue, the continue
\* takes that stop and returns to the prompt with the tracee stopped.
C12_ContinueReturnsOnAnyStop ==
    [][(pc = "prettier" /\ WaitResult = "Stopped" /\ Prettier) =>
          (pc' = "prompt" /\ tstate' = "Stopped" /\ ~pending')]_vars

\* C13: no ptrace request (resume, register read, memory read or write) is
\* issued before a waitpid has reported a stop of the tracee.
C13_FirstStopWaitedFor ==
    [][(/\ ~waited
        /\ pc = "prompt"
        /\ \/ Continue \/ Step \/ Registers
           \/ command'.val >= 0 /\ command'.argc = 2 /\ command'.has0x
                /\ (Memory \/ Breakpoint)) => FALSE]_vars

\* a command line of m or b with a wrong argument count, no 0x prefix or
\* digits that are not hexadecimal
Malformed(c) ==
    c.name \in {"m", "b"} /\ (c.argc # 2 \/ ~c.has0x \/ c.val < 0)

ErrorTexts ==
    {"Usage: m <address>", "Usage: b <address>",
     "Your address should start with 0x !", "Invalid address format",
     "Unknown command: x"}

C16_UnknownTrap ==
    [][(pc = "prettier" /\ WaitResult = "Stopped" /\ sig = "SIGTRAP" /\ Prettier) =>
          IF (rip - 1) \in DOMAIN BREAKPOINTS
          THEN ~Printed("Unknown")'
          ELSE /\ out' = out \o <<Line("SIGTRAP"), LineAt("Unknown", rip - 1)>>
               /\ pc' = "prompt"
               /\ BREAKPOINTS' = BREAKPOINTS
               /\ mem' = mem]_vars

\* C16, its case: an unknown trap at P-1 while the table has an entry for P
C16_Witness ==
    \E a \in 0..(MaxRip - 1) :
        /\ TrapAt(a) /\ UnknownPrinted(a) /\ pc = "prompt"
        /\ a \notin DOMAIN BREAKPOINTS
        /\ (a + 1) \in DOMAIN BREAKPOINTS

\* C17: an install at an address whose entry records the program's byte
\* leaves that entry recording the program's byte.
C17_ReinstallKeepsOriginal ==
    [][\A a \in CmdAddrs :
          (command' = BreakAt(a) /\ a \in DOMAIN BREAKPOINTS
             /\ BREAKPOINTS[a] = prog[a] /\ Breakpoint) =>
                (a \in DOMAIN BREAKPOINTS' /\ BREAKPOINTS'[a] = prog[a])]_vars

\* C18: a syscall command never waits on a tracee that is stopped with no stop
\* left to report: its wait can return, or the tracee is still running.
C18_SyscallWaitReturns ==
    pc = "syscall_wait" => (tstate = "Running" \/ WaitResult # "block")

\* C19: an install at A and the restore of a hit at A change no byte of the
\* tracee's memory but the one at A and no entry of the table but A's, so a
\* breakpoint at an address nearby keeps its trap opcode and its original
\* byte; and a first install at A records the program's byte at A.
C19_OnlyOwnByte ==
    [][\A a \in Addr :
          /\ (\/ command' = BreakAt(a) /\ Breakpoint
              \/ pc = "prettier" /\ sig = "SIGTRAP" /\ rip - 1 = a /\ Prettier) =>
                /\ \A x \in Addr \ {a} : mem'[x] = mem[x]
                /\ \A x \in DOMAIN BREAKPOINTS \ {a} :
                      x \in DOMAIN BREAKPOINTS' /\ BREAKPOINTS'[x] = BREAKPOINTS[x]
          /\ (command' = BreakAt(a) /\ out' = <<>> /\ installs[a] = 0 /\ Breakpoint) =>
                BREAKPOINTS'[a] = prog[a]]_vars

\* C19, its case: breakpoints installed at 0 and at 1, the one at 0 hit and
\* restored, the one at 1 still armed with the program's byte recorded
C19_Witness ==
    /\ TrapAt(0) /\ HitPrinted(0)
    /\ installs[0] = 1 /\ installs[1] = 1
    /\ mem[0] = prog[0] /\ prog[0] # TRAP
    /\ mem[1] = TRAP /\ prog[1] # TRAP
    /\ BREAKPOINTS[1] = prog[1]

=============================================================================
